---- MODULE Spec2Model ----
(***************************************************************************)
(* Model of modules/parser/src/parsers/parse-stream-data-message.js, the   *)
(* XVIZ stream message decoder and dispatcher.                             *)
(*                                                                         *)
(* JavaScript values are records tagged by k (the typeof / class of the    *)
(* value).  A string is a sequence of symbols, "/" being one of them, so   *)
(* that split and join are computed and not assumed.  A text or byte       *)
(* payload carries the outcome of JSON.parse (or of the binary codec) on   *)
(* it, which is all the code under study ever asks of its content.         *)
(* An exception is the value Throw(e), propagated by every operator the    *)
(* way the JavaScript call stack propagates it.                            *)
(***************************************************************************)
EXTENDS Integers, Sequences, FiniteSets, TLC

VARIABLES currentMajorVersion, pc, call, out

vars == <<currentMajorVersion, pc, call, out>>

(***************************************************************************)
(* Bounds of the model.                                                    *)
(***************************************************************************)
\* longest envelope type string, in symbols ("xviz/foo/bar" is 5)
MaxTypeLen == 5
\* the active major version ranges over 1..MaxVersion
MaxVersion == 3

(***************************************************************************)
(* JavaScript values.                                                      *)
(***************************************************************************)
Undefined == [k |-> "undefined"]
Null == [k |-> "null"]
Bool(b) == [k |-> "boolean", b |-> b]
Num(n) == [k |-> "number", n |-> n]
Str(s) == [k |-> "string", s |-> s]
Word(w) == Str(<<w>>)
Obj(f) == [k |-> "object", f |-> f]
Arr(e) == [k |-> "array", e |-> e]
NoFields == [x \in {} |-> Undefined]
Throw(e) == [k |-> "throw", e |-> e]
IsThrow(v) == v.k = "throw"

\* the outcome of JSON.parse (or of the binary codec) on a text or on bytes
WellFormed(v) == [wf |-> TRUE, val |-> v]
Malformed == [wf |-> FALSE]
\* a string payload, known by its JSON reading
Text(j) == [k |-> "string", text |-> j]
\* a byte buffer: its class, whether it carries the binary-protocol magic,
\* its first and last characters, and what its content parses to
Bytes(class, magic, first, last, body) ==
    [k |-> class, magic |-> magic, first |-> first, last |-> last, body |-> body]
BlobValue == [k |-> "Blob"]

\* typeof v === 'string'
IsString(v) == v.k = "string"
\* typeof v === 'object' (null included, as in JavaScript)
IsObjectType(v) == v.k \in {"object", "array", "null", "Uint8Array", "ArrayBuffer", "Blob"}

\* JavaScript truthiness
Truthy(v) ==
    CASE v.k \in {"undefined", "null"} -> FALSE
      [] v.k = "boolean" -> v.b
      [] v.k = "number" -> v.n # 0
      [] v.k = "string" -> IF "s" \in DOMAIN v THEN v.s # <<>> ELSE TRUE
      [] OTHER -> TRUE

\* the property read v[name]; reading a property of null or undefined throws
Get(v, name) ==
    CASE v.k \in {"undefined", "null"} -> Throw("TypeError")
      [] v.k = "object" -> IF name \in DOMAIN v.f THEN v.f[name] ELSE Undefined
      [] OTHER -> Undefined

\* a && b
And(a, b) == IF IsThrow(a) THEN a ELSE IF Truthy(a) THEN b ELSE a
\* a || b
Or(a, b) == IF IsThrow(a) THEN a ELSE IF Truthy(a) THEN a ELSE b

\* {...v}: the own enumerable properties of v
Spread(v) == IF v.k = "object" THEN v.f ELSE NoFields
\* {...f, name: val}
With(f, name, val) == (name :> val) @@ f

\* String.prototype.split('/')
RECURSIVE Split(_)
Split(s) ==
    IF s = <<>> THEN << <<>> >>
    ELSE LET rest == Split(Tail(s))
         IN  IF Head(s) = "/" THEN << <<>> >> \o rest
             ELSE << <<Head(s)>> \o Head(rest) >> \o Tail(rest)

\* Array.prototype.join('/')
RECURSIVE Join(_)
Join(parts) ==
    IF parts = <<>> THEN <<>>
    ELSE IF Len(parts) = 1 THEN parts[1]
    ELSE parts[1] \o <<"/">> \o Join(Tail(parts))

\* JSON.parse
JSONparse(j) == IF j.wf THEN j.val ELSE Throw("SyntaxError")

(***************************************************************************)
(* Collaborators outside the file, known at their boundary only.           *)
(***************************************************************************)
LOG_STREAM_MESSAGE == [METADATA |-> Word("METADATA"), ERROR |-> Word("ERROR"), DONE |-> Word("DONE")]

IsBytes(v) == v.k \in {"Uint8Array", "ArrayBuffer"}
isBinaryXVIZ(data) == IsBytes(data) /\ data.magic
parseBinaryXVIZ(data) == IF data.body.wf THEN data.body.val ELSE Throw("Error")
\* new TextDecoder('utf8').decode(data): the text the bytes hold
TextDecode(data) == data.body

parseLogMetadata(data, failing) ==
    IF failing = "parseLogMetadata" THEN Throw("Error")
    ELSE Obj("metadataOf" :> data)

parseTimesliceDataV1(data, convertPrimitive, failing) ==
    IF failing = "parseTimesliceData" THEN Throw("Error")
    ELSE Obj(("timeslice" :> Word("v1")) @@ ("of" :> data) @@ ("convertPrimitive" :> convertPrimitive))

parseTimesliceDataV2(data, convertPrimitive, failing) ==
    IF failing = "parseTimesliceData" THEN Throw("Error")
    ELSE Obj(("timeslice" :> Word("v2")) @@ ("of" :> data) @@ ("convertPrimitive" :> convertPrimitive))

\* one invocation of a collaborator or of the router, as a spy would record it
Invocation(fn, args) == [fn |-> fn, args |-> args]

(***************************************************************************)
(* The file's functions.                                                   *)
(***************************************************************************)
\* a sniff that knows objects only, and lets "[...]" bytes through unparsed
isJSON_objectOnly(encodedString) ==
    encodedString.first = "{" /\ encodedString.last = "}"

isJSON(encodedString) ==
    \/ encodedString.first = "{" /\ encodedString.last = "}"
    \/ encodedString.first = "[" /\ encodedString.last = "]"

\* a decode that keeps peeking below the first level
RECURSIVE decode_deep(_, _)
decode_deep(data, recursive) ==
    IF ~Truthy(data) THEN data
    ELSE IF isBinaryXVIZ(data) THEN parseBinaryXVIZ(data)
    ELSE IF data.k = "Uint8Array" /\ isJSON(data) THEN JSONparse(TextDecode(data))
    ELSE IF IsObjectType(data) THEN
        CASE data.k = "object" ->
               LET d == [key \in DOMAIN data.f |-> decode_deep(data.f[key], recursive)]
                   bad == {key \in DOMAIN d : IsThrow(d[key])}
               IN  IF bad # {} THEN d[CHOOSE key \in bad : TRUE] ELSE Obj(d)
          [] data.k = "array" ->
               LET d == [i \in DOMAIN data.e |-> decode_deep(data.e[i], recursive)]
                   bad == {i \in DOMAIN d : IsThrow(d[i])}
               IN  IF bad # {} THEN d[CHOOSE i \in bad : TRUE] ELSE Arr(d)
          [] OTHER -> data
    ELSE data

RECURSIVE decode(_, _)
decode(data, recursive) ==
    IF ~Truthy(data) THEN data
    ELSE IF isBinaryXVIZ(data) THEN parseBinaryXVIZ(data)
    ELSE IF data.k = "Uint8Array" /\ isJSON(data) THEN JSONparse(TextDecode(data))
    ELSE IF recursive /\ IsObjectType(data) THEN
        CASE data.k = "object" ->
               LET d == [key \in DOMAIN data.f |-> decode(data.f[key], FALSE)]
                   bad == {key \in DOMAIN d : IsThrow(d[key])}
               IN  IF bad # {} THEN d[CHOOSE key \in bad : TRUE] ELSE Obj(d)
          [] data.k = "array" ->
               LET d == [i \in DOMAIN data.e |-> decode(data.e[i], FALSE)]
                   bad == {i \in DOMAIN d : IsThrow(d[i])}
               IN  IF bad # {} THEN d[CHOOSE i \in bad : TRUE] ELSE Arr(d)
          \* a byte buffer's own keys are its indices, each holding a number,
          \* which decode returns as it is
          [] OTHER -> data
    ELSE data

\* an unpacking that hands on the wrapper instead of its data
unpackEnvelope_keepsWrapper(data) ==
    LET type == Get(data, "type")
    IN  IF IsThrow(type) THEN type
        ELSE IF ~(IsString(type) /\ "s" \in DOMAIN type) THEN Throw("TypeError")
        ELSE LET parts == Split(type.s)
             IN  Obj([namespace |-> Str(parts[1]),
                      type |-> Str(Join(Tail(parts))),
                      data |-> data])

\* an unpacking that keeps the second segment only, parts[1], as the type
unpackEnvelope_secondSegment(data) ==
    LET type == Get(data, "type")
    IN  IF IsThrow(type) THEN type
        ELSE IF ~(IsString(type) /\ "s" \in DOMAIN type) THEN Throw("TypeError")
        ELSE LET parts == Split(type.s)
             IN  Obj([namespace |-> Str(parts[1]),
                      type |-> Str(IF Len(parts) > 1 THEN parts[2] ELSE <<>>),
                      data |-> Get(data, "data")])

unpackEnvelope(data) ==
    LET type == Get(data, "type")
    IN  IF IsThrow(type) THEN type
        ELSE IF ~(IsString(type) /\ "s" \in DOMAIN type) THEN Throw("TypeError")
        ELSE LET parts == Split(type.s)
             IN  Obj([namespace |-> Str(parts[1]),
                      type |-> Str(Join(Tail(parts))),
                      data |-> Get(data, "data")])

\* a sniff that looks at type alone
isEnvelope_typeOnly(data) == Get(data, "type")

\* a sniff that takes only an object for the data of an envelope
isEnvelope_objectData(data) ==
    And(And(Get(data, "type"), Get(data, "data")),
        Bool(~IsThrow(Get(data, "data")) /\ Get(data, "data").k = "object"))

isEnvelope(data) == And(Get(data, "type"), Get(data, "data"))

\* a === b
StrictEq(a, b) == Bool(a = b)

\* function checkV2MetadataFields: the value of data after the call
checkV2MetadataFields(data) ==
    LET c == And(And(Get(data, "streams"), Get(data, "version")),
                 StrictEq(Get(data, "version"), Word("2.0.0")))
    IN  IF IsThrow(c) THEN c
        ELSE IF Truthy(c) THEN Obj(With(data.f, "type", Word("metadata")))
        ELSE data

\* a gate that sends every version but 2 to the v1 decoder
parseTimesliceData_v1Default(data, convertPrimitive, version, failing) ==
    IF version = 2
    THEN [val |-> parseTimesliceDataV2(data, convertPrimitive, failing),
          calls |-> <<Invocation("parseTimesliceDataV2", <<data, convertPrimitive>>)>>]
    ELSE [val |-> parseTimesliceDataV1(data, convertPrimitive, failing),
          calls |-> <<Invocation("parseTimesliceDataV1", <<data, convertPrimitive>>)>>]

\* function parseTimesliceData: what it returns (or throws) and whom it called
parseTimesliceData(data, convertPrimitive, version, failing) ==
    IF version = 1
    THEN [val |-> parseTimesliceDataV1(data, convertPrimitive, failing),
          calls |-> <<Invocation("parseTimesliceDataV1", <<data, convertPrimitive>>)>>]
    ELSE [val |-> parseTimesliceDataV2(data, convertPrimitive, failing),
          calls |-> <<Invocation("parseTimesliceDataV2", <<data, convertPrimitive>>)>>]

\* data.type || data.message || data.update_type
Discriminator(data) ==
    Or(Or(Get(data, "type"), Get(data, "message")), Get(data, "update_type"))

\* function parseStreamLogData(data, opts = {})
parseStreamLogData(data, opts, version, failing) ==
    LET o == IF opts = Undefined THEN Obj(NoFields) ELSE opts
        d == checkV2MetadataFields(data)
    IN  IF IsThrow(d) THEN [val |-> d, calls |-> <<>>]
        ELSE LET disc == Discriminator(d)
             IN  CASE disc = Word("metadata") ->
                        LET m == parseLogMetadata(d, failing)
                        IN  [val |-> IF IsThrow(m) THEN m
                                     ELSE Obj(With(Spread(m), "type", LOG_STREAM_MESSAGE.METADATA)),
                             calls |-> <<Invocation("parseLogMetadata", <<d>>)>>]
                   [] disc = Word("error") ->
                        [val |-> Obj(With(With(Spread(d), "message", Word("Stream server error")),
                                          "type", LOG_STREAM_MESSAGE.ERROR)),
                         calls |-> <<>>]
                   [] disc = Word("done") ->
                        [val |-> Obj(With(Spread(d), "type", LOG_STREAM_MESSAGE.DONE)),
                         calls |-> <<>>]
                   [] disc = Word("ack") -> [val |-> Null, calls |-> <<>>]
                   [] OTHER ->
                        parseTimesliceData(d, Get(o, "convertPrimitive"), version, failing)

\* the try block of parseStreamDataMessage: the callbacks it reached, the
\* collaborators it called, the value decode gave, and the exception that
\* left the block, if one did
NotThrown == [k |-> "none"]
TryBlock(message, opts, onResultThrows, version, failing) ==
    LET data0 == IF IsString(message) THEN JSONparse(message.text) ELSE decode(message, TRUE)
        stop(e, dec) == [onResult |-> <<>>, calls |-> <<>>, decoded |-> dec, thrown |-> e]
    IN  IF IsThrow(data0) THEN stop(data0, data0)
        ELSE LET env == isEnvelope(data0)
             IN  IF IsThrow(env) THEN stop(env, data0)
                 ELSE LET unpacked == IF Truthy(env) THEN unpackEnvelope(data0) ELSE NotThrown
                      IN  IF IsThrow(unpacked) THEN stop(unpacked, data0)
                          ELSE IF Truthy(env) /\ Get(unpacked, "namespace") # Word("xviz")
                          THEN stop(NotThrown, data0)
                          ELSE LET data == IF Truthy(env) THEN Get(unpacked, "data") ELSE data0
                                   r == parseStreamLogData(data, opts, version, failing)
                                   routed == <<Invocation("parseStreamLogData", <<data, opts>>)>> \o r.calls
                               IN  IF IsThrow(r.val)
                                   THEN [onResult |-> <<>>, calls |-> routed,
                                         decoded |-> data0, thrown |-> r.val]
                                   ELSE [onResult |-> <<r.val>>, calls |-> routed,
                                         decoded |-> data0,
                                         thrown |-> IF onResultThrows THEN Throw("CallbackError")
                                                    ELSE NotThrown]

\* function parseStreamDataMessage, with Blob defined in the environment
parseStreamDataMessage(message, opts, onResultThrows, version, failing) ==
    IF message.k = "Blob"
    THEN [onResult |-> <<>>, onError |-> <<>>, decoded |-> NotThrown,
          calls |-> <<Invocation("parseStreamVideoMessage", <<message>>)>>]
    ELSE LET t == TryBlock(message, opts, onResultThrows, version, failing)
         IN  [onResult |-> t.onResult,
              onError |-> IF IsThrow(t.thrown) THEN <<t.thrown.e>> ELSE <<>>,
              decoded |-> t.decoded,
              calls |-> t.calls]

(***************************************************************************)
(* The inputs the model draws from.                                        *)
(***************************************************************************)
Absent == [k |-> "absent"]
\* the object holding the fields of the record rec that are not Absent
ObjOf(rec) == Obj([n \in {x \in DOMAIN rec : rec[x].k # "absent"} |-> rec[n]])

\* every string of at most n symbols over the symbols of an envelope type
TypeSymbols == {"xviz", "foo", "/"}
Strings(n) == UNION {[1..m -> TypeSymbols] : m \in 0..n}

DiscWords == {"metadata", "error", "done", "ack", "snapshot", "incremental", "bogus"}

\* the values parseStreamLogData is called with directly
LogObjects ==
    {ObjOf([type |-> t, message |-> m, update_type |-> u, streams |-> s, version |-> v]) :
        t \in {Absent, Str(<<>>)} \cup {Word(w) : w \in DiscWords},
        m \in {Absent, Word("metadata"), Word("ack")},
        u \in {Absent, Word("snapshot"), Word("done")},
        s \in {Absent, Obj(NoFields)},
        v \in {Absent, Word("2.0.0"), Word("1.0.0")}}

Scalars == {Null, Undefined, Num(0), Num(1), Bool(FALSE), Bool(TRUE), Str(<<>>), Word("done")}

\* a few messages of each route
DoneMsg == ObjOf([type |-> Word("done"), aux |-> Num(7)])
SmallLog ==
    {DoneMsg,
     ObjOf([type |-> Word("done"), message |-> Word("metadata")]),
     ObjOf([type |-> Word("error"), message |-> Word("disk full"), aux |-> Num(7)]),
     ObjOf([type |-> Word("ack")]),
     ObjOf([type |-> Word("metadata"), streams |-> Obj(NoFields)]),
     ObjOf([streams |-> Obj(NoFields), version |-> Word("2.0.0")]),
     ObjOf([type |-> Word("error"), streams |-> Obj(NoFields), version |-> Word("2.0.0")]),
     ObjOf([update_type |-> Word("snapshot"), aux |-> Num(7)]),
     ObjOf([message |-> Word("done")]),
     Obj(NoFields)}

\* byte buffers as they occur in a field of a message
NestedBytes ==
    {Bytes("Uint8Array", FALSE, "{", "}", WellFormed(DoneMsg)),
     Bytes("Uint8Array", TRUE, "x", "x", WellFormed(DoneMsg)),
     Bytes("Uint8Array", TRUE, "x", "x",
           WellFormed(ObjOf([type |-> Word("done"),
                             blob |-> Bytes("Uint8Array", FALSE, "{", "}", WellFormed(DoneMsg))]))),
     Bytes("Uint8Array", FALSE, "{", "}", Malformed),
     Bytes("Uint8Array", FALSE, "x", "x", Malformed)}

EnvelopeTypes ==
    {Str(s) : s \in {<<"xviz">>, <<"xviz", "/">>, <<"xviz", "/", "foo">>, <<"xviz", "/", "done">>,
                     <<"foo", "/", "xviz">>, <<"/", "xviz">>, <<"xviz", "foo">>,
                     <<"done">>, <<"error">>, <<"ack">>}}
    \cup {Num(5), Bool(TRUE), Obj(NoFields)}

\* what JSON text can hold in the data field of a {type, data} message
JSONData == SmallLog \cup {Null, Num(0), Num(1), Str(<<>>), Word("done")}
\* what an object payload can hold there besides: bytes, at the first level and below it
DeepData == {ObjOf([type |-> Word("done"), blob |-> b]) : b \in NestedBytes}

Envelopes(datas) ==
    {ObjOf([type |-> t, data |-> d, message |-> m, update_type |-> m]) :
        t \in EnvelopeTypes, d \in datas, m \in {Absent, Word("ack")}}

JSONValues ==
    SmallLog \cup (Scalars \ {Undefined}) \cup Envelopes(JSONData)
    \cup {Arr(<<>>), Arr(<<Num(1), DoneMsg>>)}

ByteClasses == {"Uint8Array", "ArrayBuffer"}
BytePayloads ==
    {Bytes(c, TRUE, "x", "x", b) :
        c \in ByteClasses,
        b \in {Malformed, WellFormed(DoneMsg),
               WellFormed(ObjOf([type |-> Str(<<"xviz", "/", "state_update">>),
                                 data |-> ObjOf([update_type |-> Word("snapshot")])]))}}
    \cup {Bytes(c, FALSE, "{", "}", b) :
        c \in ByteClasses,
        b \in {Malformed} \cup {WellFormed(v) : v \in SmallLog}}
    \cup {Bytes(c, FALSE, "[", "]", b) :
        c \in ByteClasses, b \in {Malformed, WellFormed(Arr(<<Num(1), DoneMsg>>))}}
    \cup {Bytes(c, FALSE, fl[1], fl[2], Malformed) :
        c \in ByteClasses, fl \in {<<"x", "x">>, <<"{", "]">>, <<"[", "x">>}}
    \cup {Bytes(c, FALSE, " ", " ", WellFormed(DoneMsg)) : c \in ByteClasses}

ObjectPayloads ==
    (JSONValues \ Scalars)
    \cup Envelopes(NestedBytes \cup DeepData)
    \cup {ObjOf([update_type |-> Word("snapshot"), blob |-> b]) : b \in NestedBytes}
    \cup {Arr(<<b, ObjOf([blob |-> b])>>) : b \in NestedBytes}

Payloads ==
    {Text(Malformed)} \cup {Text(WellFormed(v)) : v \in JSONValues}
    \cup BytePayloads \cup ObjectPayloads
    \cup {Null, Undefined, Num(0), Bool(FALSE), Num(1), Bool(TRUE)}
    \cup {BlobValue}

Options == {Undefined, Obj(NoFields), ObjOf([convertPrimitive |-> Bool(TRUE)])}
Failings == {"none", "parseLogMetadata", "parseTimesliceData"}

(***************************************************************************)
(* The state machine: one call at a time, each run to completion.          *)
(***************************************************************************)
NoCall == [fn |-> "none"]
NoOut == [k |-> "none"]

Init ==
    /\ currentMajorVersion = 1
    /\ pc = "idle"
    /\ call = NoCall
    /\ out = NoOut

\* the host sets the process-wide active major version
setXVIZSettings ==
    /\ pc = "idle"
    /\ \E v \in 1..MaxVersion : currentMajorVersion' = v
    /\ UNCHANGED <<pc, call, out>>

CallParseStreamDataMessage ==
    /\ pc = "idle"
    /\ \E message \in Payloads, opts \in Options, onResultThrows \in BOOLEAN, failing \in Failings :
         /\ call' = [fn |-> "parseStreamDataMessage", message |-> message, opts |-> opts,
                     onResultThrows |-> onResultThrows, failing |-> failing,
                     version |-> currentMajorVersion]
         /\ out' = parseStreamDataMessage(message, opts, onResultThrows,
                                          currentMajorVersion, failing)
    /\ pc' = "returned"
    /\ UNCHANGED currentMajorVersion

CallParseStreamLogData ==
    /\ pc = "idle"
    /\ \E data \in LogObjects \cup Scalars, opts \in Options, failing \in Failings :
         /\ call' = [fn |-> "parseStreamLogData", data |-> data, opts |-> opts,
                     failing |-> failing, version |-> currentMajorVersion]
         /\ out' = parseStreamLogData(data, opts, currentMajorVersion, failing)
    /\ pc' = "returned"
    /\ UNCHANGED currentMajorVersion

CallUnpackEnvelope ==
    /\ pc = "idle"
    /\ \E t \in {Str(s) : s \in Strings(MaxTypeLen)} \cup {Num(5), Undefined},
          d \in {DoneMsg, Num(0)} :
         /\ call' = [fn |-> "unpackEnvelope", data |-> ObjOf([type |-> t, data |-> d])]
         /\ out' = [val |-> unpackEnvelope(ObjOf([type |-> t, data |-> d]))]
    /\ pc' = "returned"
    /\ UNCHANGED currentMajorVersion

\* the call has returned; the host goes on to the next message
Return ==
    /\ pc = "returned"
    /\ pc' = "idle"
    /\ call' = NoCall
    /\ out' = NoOut
    /\ UNCHANGED currentMajorVersion

Next ==
    \/ setXVIZSettings
    \/ CallParseStreamDataMessage
    \/ CallParseStreamLogData
    \/ CallUnpackEnvelope
    \/ Return

Spec == Init /\ [][Next]_vars

(***************************************************************************)
(* Vocabulary of the properties, stated on values and on what a spy sees,  *)
(* independently of the functions above.                                   *)
(***************************************************************************)
Returned(fn) == pc = "returned" /\ call.fn = fn
\* a call of parseStreamDataMessage on a payload that is not a Blob has returned
MessageParsed == Returned("parseStreamDataMessage") /\ call.message.k # "Blob"

HasTruthy(v, name) == v.k = "object" /\ name \in DOMAIN v.f /\ Truthy(v.f[name])
\* truthy type and truthy data
EnvelopeShaped(v) == HasTruthy(v, "type") /\ HasTruthy(v, "data")
StringTyped(v) == EnvelopeShaped(v) /\ v.f["type"].k = "string"
\* the position of the first "/" of s, or 0
FirstSlash(s) == IF \E i \in 1..Len(s) : s[i] = "/"
                 THEN CHOOSE i \in 1..Len(s) : s[i] = "/" /\ \A j \in 1..(i - 1) : s[j] # "/"
                 ELSE 0
\* the segment of s before its first "/"
FirstSegment(s) == IF FirstSlash(s) = 0 THEN s ELSE SubSeq(s, 1, FirstSlash(s) - 1)
\* what follows the first "/" of s
AfterFirstSlash(s) == IF FirstSlash(s) = 0 THEN <<>> ELSE SubSeq(s, FirstSlash(s) + 1, Len(s))
XvizEnvelope(v) == StringTyped(v) /\ FirstSegment(v.f["type"].s) = <<"xviz">>
ForeignEnvelope(v) == StringTyped(v) /\ FirstSegment(v.f["type"].s) # <<"xviz">>

CallsOf(fns) == SelectSeq(out.calls, LAMBDA c : c.fn \in fns)
RouterCalls == CallsOf({"parseStreamLogData"})
TimesliceCalls == CallsOf({"parseTimesliceDataV1", "parseTimesliceDataV2"})
DecoderCalls == CallsOf({"parseLogMetadata", "parseTimesliceDataV1", "parseTimesliceDataV2"})
\* the metadata parser or a timeslice decoder was called and failed
DecoderFailed ==
    \/ call.failing = "parseLogMetadata" /\ CallsOf({"parseLogMetadata"}) # <<>>
    \/ call.failing = "parseTimesliceData" /\ TimesliceCalls # <<>>

(***************************************************************************)
(* Callback contract of parseStreamDataMessage.                            *)
(***************************************************************************)
\* C1: for every payload that is not a Blob, one call invokes exactly one of
\* onResult and onError, exactly once, and never both; a foreign-namespace
\* envelope is the one exception, for which it invokes neither.
C1_ExactlyOneCallback ==
    MessageParsed =>
        IF ~IsThrow(out.decoded) /\ ForeignEnvelope(out.decoded)
        THEN out.onResult = <<>> /\ out.onError = <<>>
        ELSE Len(out.onResult) + Len(out.onError) = 1

\* the payload is valid JSON text
ValidJSONText == MessageParsed /\ IsString(call.message) /\ call.message.text.wf
\* the value a valid JSON text holds
JSONValueOf(message) == message.text.val

\* C2 as stated: every valid JSON text gives onResult once and onError never,
\* unless the metadata parser or the timeslice decoder fails on its value.
C2_ValidJSONDelivered ==
    ValidJSONText /\ ~DecoderFailed =>
        Len(out.onResult) = 1 /\ out.onError = <<>>

\* the values the envelope sniffing and unwrapping reject with a TypeError
Rejected(v) == v = Null \/ (EnvelopeShaped(v) /\ ~StringTyped(v))

\* C2 amended: every valid JSON text gives onResult once and onError never,
\* unless its value is null or an envelope whose type is not a string, or a
\* decoder fails on it (onError once, onResult never), or it is a
\* foreign-namespace envelope (neither), or onResult itself throws (onError
\* once, after onResult).
C2_ValidJSONOutcome ==
    ValidJSONText =>
        LET v == JSONValueOf(call.message)
            undelivered == Rejected(v) \/ ForeignEnvelope(v) \/ DecoderFailed
        IN  /\ Len(out.onResult) = (IF undelivered THEN 0 ELSE 1)
            /\ Len(out.onError) =
                 (IF Rejected(v) \/ DecoderFailed \/ (~undelivered /\ call.onResultThrows)
                  THEN 1 ELSE 0)

\* a valid JSON text went through with onResult once and onError never
C2_Witness ==
    /\ ValidJSONText
    /\ JSONValueOf(call.message) = DoneMsg
    /\ Len(out.onResult) = 1 /\ out.onError = <<>>

\* the payload is malformed JSON, as text or as a byte buffer without the
\* binary-protocol signature
MalformedText == IsString(call.message) /\ ~call.message.text.wf
MalformedBytes == IsBytes(call.message) /\ ~call.message.magic /\ ~call.message.body.wf
Delimited(b) == (b.first = "{" /\ b.last = "}") \/ (b.first = "[" /\ b.last = "]")

\* C3 as stated: every malformed JSON payload, text or byte buffer, gives
\* onError once and onResult never, and never reaches the router or a decoder.
C3_MalformedIsError ==
    MessageParsed /\ (MalformedText \/ MalformedBytes) =>
        /\ Len(out.onError) = 1 /\ out.onResult = <<>>
        /\ out.calls = <<>>

\* C3 amended: malformed JSON text, and a malformed Uint8Array delimited by
\* {...} or [...], give onError once and onResult never and never reach the
\* router; any other byte buffer without the binary-protocol signature is not
\* parsed at all and is handed to the router as it is.
C3_MalformedOutcome ==
    /\ MessageParsed /\ (MalformedText \/ (MalformedBytes /\ call.message.k = "Uint8Array"
                                           /\ Delimited(call.message))) =>
         /\ out.onError = <<"SyntaxError">> /\ out.onResult = <<>>
         /\ out.calls = <<>>
    /\ MessageParsed /\ IsBytes(call.message) /\ ~call.message.magic
       /\ ~(call.message.k = "Uint8Array" /\ Delimited(call.message)) =>
         /\ out.decoded = call.message
         /\ RouterCalls = <<Invocation("parseStreamLogData", <<call.message, call.opts>>)>>

\* a malformed, delimited byte buffer was refused
C3_Witness ==
    /\ MessageParsed /\ MalformedBytes
    /\ call.message.k = "Uint8Array" /\ call.message.first = "[" /\ call.message.last = "]"
    /\ out.onError = <<"SyntaxError">>

\* the namespace of an envelope: the segment of a string type before its first
\* "/"; a type that is not a string has none
Namespace(v) == IF v.f["type"].k = "string" THEN Str(FirstSegment(v.f["type"].s)) ELSE Undefined

\* C4 as stated: every envelope (truthy type and truthy data) whose namespace
\* is not "xviz" reaches no callback, router or decoder; for every envelope
\* whose namespace is "xviz" the router receives exactly its data.
C4_EnvelopeRouting ==
    MessageParsed /\ ~IsThrow(out.decoded) /\ EnvelopeShaped(out.decoded) =>
        IF Namespace(out.decoded) # Word("xviz")
        THEN out.onResult = <<>> /\ out.onError = <<>> /\ out.calls = <<>>
        ELSE RouterCalls = <<Invocation("parseStreamLogData",
                                        <<out.decoded.f["data"], call.opts>>)>>

\* C4 amended: the same for every envelope whose type is a string; an envelope
\* whose truthy type is not a string has no namespace and gives onError once,
\* onResult never, and reaches neither the router nor a decoder.
C4_StringEnvelopeRouting ==
    MessageParsed /\ ~IsThrow(out.decoded) /\ EnvelopeShaped(out.decoded) =>
        CASE ForeignEnvelope(out.decoded) ->
               out.onResult = <<>> /\ out.onError = <<>> /\ out.calls = <<>>
          [] XvizEnvelope(out.decoded) ->
               RouterCalls = <<Invocation("parseStreamLogData",
                                          <<out.decoded.f["data"], call.opts>>)>>
          [] OTHER ->
               out.onResult = <<>> /\ out.onError = <<"TypeError">> /\ out.calls = <<>>

\* an xviz envelope was unwrapped and its data delivered through the router
C4_Witness ==
    /\ MessageParsed /\ ~IsThrow(out.decoded) /\ XvizEnvelope(out.decoded)
    /\ out.decoded.f["type"].s = <<"xviz", "/", "foo">>
    /\ out.decoded.f["data"] = DoneMsg
    /\ Len(out.onResult) = 1

(***************************************************************************)
(* Routing in parseStreamLogData.                                          *)
(***************************************************************************)
RouterCalled == Returned("parseStreamLogData") /\ call.data.k = "object"

\* the fixup as documented: type "metadata" is synthesized when the value has
\* streams and version "2.0.0" and no type of its own
DocumentedFixup(data) ==
    IF ~HasTruthy(data, "type") /\ HasTruthy(data, "streams")
       /\ "version" \in DOMAIN data.f /\ data.f["version"] = Word("2.0.0")
    THEN Obj([n \in DOMAIN data.f \cup {"type"} |->
                 IF n = "type" THEN Word("metadata") ELSE data.f[n]])
    ELSE data

\* the first of type, message, update_type that data carries
FirstPresent(data) ==
    CASE HasTruthy(data, "type") -> data.f["type"]
      [] HasTruthy(data, "message") -> data.f["message"]
      [] HasTruthy(data, "update_type") -> data.f["update_type"]
      [] OTHER -> Undefined

RouteFor(disc) ==
    CASE disc = Word("metadata") -> "metadata"
      [] disc = Word("error") -> "error"
      [] disc = Word("done") -> "done"
      [] disc = Word("ack") -> "ack"
      [] OTHER -> "update"

\* d with the field name forced to val, every other field kept
Forced(d, name, val) ==
    Obj([n \in DOMAIN d.f \cup {name} |-> IF n = name THEN val ELSE d.f[n]])

\* what the routing table gives for data
TableResult(data, opts, version, failing) ==
    LET d == DocumentedFixup(data)
        route == RouteFor(FirstPresent(d))
        cp == IF opts.k = "object" /\ "convertPrimitive" \in DOMAIN opts.f
              THEN opts.f["convertPrimitive"] ELSE Undefined
    IN  CASE route = "metadata" ->
               LET m == parseLogMetadata(d, failing)
               IN  IF IsThrow(m) THEN m ELSE Forced(m, "type", Word("METADATA"))
          [] route = "error" ->
               Forced(Forced(d, "message", Word("Stream server error")), "type", Word("ERROR"))
          [] route = "done" -> Forced(d, "type", Word("DONE"))
          [] route = "ack" -> Null
          [] OTHER ->
               IF version = 1 THEN parseTimesliceDataV1(d, cp, failing)
               ELSE parseTimesliceDataV2(d, cp, failing)

\* C5: the route of every structural value is selected by the first present of
\* type, message, update_type (after the documented fixup), and the result is
\* the one of the routing table: the metadata record with type METADATA, a
\* copy with message "Stream server error" and type ERROR, a copy with type
\* DONE, null for ack, the timeslice decoder's result otherwise.
C5_RoutingTable ==
    RouterCalled =>
        out.val = TableResult(call.data, call.opts, call.version, call.failing)

\* the route a call took, as its result and the spies show it
RouteOf(o) ==
    CASE SelectSeq(o.calls, LAMBDA c : c.fn = "parseLogMetadata") # <<>> -> "metadata"
      [] SelectSeq(o.calls, LAMBDA c : c.fn \in {"parseTimesliceDataV1", "parseTimesliceDataV2"}) # <<>>
           -> "update"
      [] o.val = Null -> "ack"
      [] o.val.k = "object" /\ "type" \in DOMAIN o.val.f /\ o.val.f["type"] = Word("ERROR") -> "error"
      [] o.val.k = "object" /\ "type" \in DOMAIN o.val.f /\ o.val.f["type"] = Word("DONE") -> "done"
      [] OTHER -> "none"

\* C6: the fixup synthesizes type "metadata" exactly when the value has
\* streams, version "2.0.0" and no type of its own: such a value routes as
\* metadata, and a value with a type of its own is routed by that type.
C6_FixupKeepsExplicitType ==
    RouterCalled =>
        IF HasTruthy(call.data, "type")
        THEN RouteOf(out) = RouteFor(call.data.f["type"])
        ELSE RouteOf(out) = RouteFor(FirstPresent(DocumentedFixup(call.data)))

(***************************************************************************)
(* The version gate.                                                       *)
(***************************************************************************)
\* the value the router was given in the call that returned, if it was reached
RouterReached ==
    \/ Returned("parseStreamLogData")
    \/ Returned("parseStreamDataMessage") /\ RouterCalls # <<>>
RoutedData == IF call.fn = "parseStreamLogData" THEN call.data ELSE RouterCalls[1].args[1]
ConvertPrimitiveOption ==
    IF call.opts.k = "object" /\ "convertPrimitive" \in DOMAIN call.opts.f
    THEN call.opts.f["convertPrimitive"] ELSE Undefined
IsDataUpdate(d) ==
    /\ d.k \notin {"null", "undefined"}
    /\ RouteFor(Discriminator(checkV2MetadataFields(d))) = "update"

Unpacked == Returned("unpackEnvelope") /\ StringTyped(call.data)
TypeString == call.data.f["type"].s
Rewrapped(u) == u.f["namespace"].s \o <<"/">> \o u.f["type"].s
SplitsAtFirstSlash(u) ==
    /\ ~IsThrow(u)
    /\ u.f["namespace"] = Str(FirstSegment(TypeString))
    /\ u.f["type"] = Str(AfterFirstSlash(TypeString))
    /\ u.f["data"] = call.data.f["data"]

\* C8 as stated: for every envelope with a string type, unpackEnvelope gives
\* the segment before the first "/" as namespace, the rest as type and the
\* data unchanged, and namespace + "/" + type is the original type string.
C8_RoundTrip ==
    Unpacked => SplitsAtFirstSlash(out.val) /\ Rewrapped(out.val) = TypeString

\* C8 amended: the same, the round trip holding for every type string that
\* contains a "/"; for a type string without one, namespace + "/" + type is
\* the original followed by "/".
C8_RoundTripWithSlash ==
    Unpacked =>
        /\ SplitsAtFirstSlash(out.val)
        /\ FirstSlash(TypeString) # 0 => Rewrapped(out.val) = TypeString
        /\ FirstSlash(TypeString) = 0 => Rewrapped(out.val) = TypeString \o <<"/">>

\* "xviz/foo/foo" was unpacked into "xviz" and "foo/foo" and wraps back
C8_Witness ==
    /\ Unpacked
    /\ TypeString = <<"xviz", "/", "foo", "/", "foo">>
    /\ out.val.f["type"] = Str(<<"foo", "/", "foo">>)
    /\ Rewrapped(out.val) = TypeString

(***************************************************************************)
(* decode.                                                                 *)
(***************************************************************************)
\* decode ran on the payload: it is neither a string nor a Blob
Decoded == MessageParsed /\ ~IsString(call.message)
Structural(v) == v.k \in {"object", "array"}
\* the fields (or elements) of a structural value
Members(v) == IF v.k = "object" THEN v.f ELSE v.e
\* what the byte classification gives for one value, without looking inside it
Classified(v) ==
    IF IsBytes(v) /\ v.magic THEN v.body.val
    ELSE IF v.k = "Uint8Array" /\ Delimited(v) THEN v.body.val
    ELSE v

\* C9: on a structural payload decode classifies the value of each top-level
\* field and nothing deeper, so that whatever lies below is left as received;
\* decoding the decoded value of a payload that is not bytes again changes
\* nothing; and a falsy payload decodes to itself.
C9_OneLevelDecode ==
    Decoded =>
        /\ ~Truthy(call.message) => out.decoded = call.message
        /\ Structural(call.message) /\ ~IsThrow(out.decoded) =>
             /\ out.decoded.k = call.message.k
             /\ DOMAIN Members(out.decoded) = DOMAIN Members(call.message)
             /\ \A key \in DOMAIN Members(call.message) :
                  Members(out.decoded)[key] = Classified(Members(call.message)[key])
        /\ ~IsBytes(call.message) /\ ~IsThrow(out.decoded) =>
             decode(out.decoded, TRUE) = out.decoded

\* a binary-protocol blob two levels down came through decode untouched
C9_Witness ==
    /\ Decoded /\ call.message.k = "object" /\ ~IsThrow(out.decoded)
    /\ HasTruthy(call.message, "data") /\ HasTruthy(call.message.f["data"], "blob")
    /\ call.message.f["data"].f["blob"].k = "Uint8Array"
    /\ call.message.f["data"].f["blob"].magic
    /\ out.decoded = call.message

(***************************************************************************)
(* The envelope sniffing decides alone.                                    *)
(***************************************************************************)
\* C10: when the decoded value has a truthy type and a truthy data, its own
\* type, message and update_type select nothing: if the first segment of type
\* is "xviz" what is delivered is parseStreamLogData of its data, whatever the
\* rest of type is, and otherwise nothing is delivered; so {type: "done",
\* data: D} with a truthy D is never delivered as DONE.
C10_EnvelopeDecidesAlone ==
    MessageParsed /\ ~IsThrow(out.decoded) /\ EnvelopeShaped(out.decoded) =>
        IF XvizEnvelope(out.decoded)
        THEN LET r == parseStreamLogData(out.decoded.f["data"], call.opts,
                                         call.version, call.failing)
             IN  out.onResult = IF IsThrow(r.val) THEN <<>> ELSE <<r.val>>
        ELSE out.onResult = <<>>

\* {type: "done", data: D, message: "ack", update_type: "ack"} delivered nothing
C10_Witness ==
    /\ MessageParsed /\ ~IsThrow(out.decoded) /\ EnvelopeShaped(out.decoded)
    /\ out.decoded.f["type"] = Word("done")
    /\ out.decoded.f["data"] = DoneMsg
    /\ HasTruthy(out.decoded, "message")
    /\ out.onResult = <<>> /\ out.onError = <<>>

====
